---- MODULE Spec2Model ----
(***************************************************************************)
(* Model of src/waug.py: the marketing dashboard's metric pipeline.        *)
(*                                                                         *)
(* Column names of the source and the names used here:                     *)
(*   일별 = day          주차 = week        월 = month                     *)
(*   주차_기간 = week_label                 프로모션여부 = promo           *)
(*   캠페인 = campaign   광고그룹 = adgroup 키워드 = keyword               *)
(*   캠페인유형 = campaign_type             PC/모바일 매체 = media         *)
(*   캠페인카테고리 = category   지역 = region   상품유형 = product_type   *)
(*   노출수 = impressions   클릭수 = clicks   총비용(VAT포함,원) = cost    *)
(*   전환수 = conversions   전환매출액(원) = revenue                       *)
(*   평균노출순위 = rank    운영비중 = share   '전체' = ALL                *)
(*                                                                         *)
(* Numbers are exact rationals <<n, d>> with d > 0 in lowest terms.        *)
(* <<0, 0>> is NaN (a missing cell), <<1, 0>> and <<-1, 0>> are the        *)
(* infinities numpy produces for a division by zero.                       *)
(***************************************************************************)
EXTENDS Integers, Sequences, FiniteSets, TLC

VARIABLES
    sd_pc, sd_x, sd_y, sd_out,          \* one call of safe_division
    mt_pc, mt_df, mt_once, mt_twice,    \* calculate_metrics applied to a table, and again
    tp_pc, tp_groups, tp_sorted, tp_top,    \* a top-10 directive applied to groups
    pc,                 \* the position of the script run
    sheet,              \* the rows of the 'raw' sheet as loaded (load_data)
    columns,            \* the headers of the 'raw' sheet
    error,              \* the exception the run was halted by (st.error)
    raw_df,             \* the normalized set (preprocess_data)
    date_option,        \* '일별' / '주간' / '월별'
    start_date, end_date,
    selected,           \* the multiselect values, by dimension
    filtered_df,
    group_df, daily_by_product, weekly_by_product,
    region_metrics, media_metrics, campaign_metrics,
    period_sheet,       \* the sheet '기간별_성과' of the report
    chart_sheet,        \* the values of the series of the sheet '차트'
    detail_sheet        \* the sheet '일자별_상세데이터' of the report

divVars == <<sd_pc, sd_x, sd_y, sd_out>>
metVars == <<mt_pc, mt_df, mt_once, mt_twice>>
topVars == <<tp_pc, tp_groups, tp_sorted, tp_top>>
otherVars == <<divVars, metVars, topVars>>
viewVars == <<group_df, daily_by_product, weekly_by_product, region_metrics,
              media_metrics, campaign_metrics, period_sheet, chart_sheet, detail_sheet>>
inputVars == <<sheet, columns>>
filterVars == <<start_date, end_date, selected>>
runVars == <<pc, inputVars, error, raw_df, date_option, filterVars, filtered_df, viewVars>>
vars == <<otherVars, runVars>>

\* ------------------------------------------------------------------ bounds
MaxLen == 2
MaxTableRows == 2
MaxRows == 2
MaxOddRows == 2
MaxGroups == 11
MaxTied == 3

\* -------------------------------------------------------------- arithmetic
NaN == <<0, 0>>
Zero == <<0, 1>>

Abs(n) == IF n < 0 THEN -n ELSE n

Sign(n) == IF n < 0 THEN -1 ELSE IF n > 0 THEN 1 ELSE 0

RECURSIVE GCD(_, _)
GCD(a, b) == IF b = 0 THEN a ELSE GCD(b, a % b)

\* the value n/d: lowest terms, positive denominator; n/0 is an infinity or NaN
Norm(n, d) ==
    IF d = 0 THEN <<Sign(n), 0>>
    ELSE LET g == GCD(Abs(n), Abs(d))
         IN  <<(Sign(d) * n) \div g, Abs(d) \div g>>

Num(n) == <<n, 1>>

IsNaN(v) == v = NaN

IsNumber(v) == v[2] > 0

\* numpy's  y != 0 : NaN and the infinities differ from 0
NotEqZero(v) == v # Zero

\* numpy's  x / y  (IEEE: no exception, NaN propagates, x/0 is +-inf, 0/0 is NaN)
Div(x, y) ==
    IF IsNaN(x) \/ IsNaN(y) THEN NaN
    ELSE IF x[2] = 0 /\ y[2] = 0 THEN NaN
    ELSE IF x[2] = 0 THEN <<x[1] * (IF y[1] < 0 THEN -1 ELSE 1), 0>>
    ELSE IF y[2] = 0 THEN Zero
    ELSE Norm(x[1] * y[2], x[2] * y[1])

\* v * 100
Times100(v) == IF v[2] = 0 THEN v ELSE Norm(v[1] * 100, v[2])

\* x + y on numbers
Plus(x, y) == Norm(x[1] * y[2] + y[1] * x[2], x[2] * y[2])

\* Series.round(1): nearest tenth, ties to the even tenth; NaN stays NaN
Round1(v) ==
    IF v[2] = 0 THEN v
    ELSE LET q == (10 * v[1]) \div v[2]
             r == (10 * v[1]) % v[2]
             t == IF 2 * r < v[2] THEN q
                  ELSE IF 2 * r > v[2] THEN q + 1
                  ELSE IF q % 2 = 0 THEN q ELSE q + 1
         IN  Norm(t, 10)

\* ----------------------------------------------------------- safe_division
\* a plain division, with no guard on the denominator
naive_division(x, y) == Div(x, y)

\* np.where(y != 0, x / y, 0), on one pair of elements
safe_division(x, y) == IF NotEqZero(y) THEN Div(x, y) ELSE Zero

\* the same on two aligned columns (Series operands, lines 97-102)
safe_division_columns(xs, ys) ==
    [i \in 1..Len(xs) |-> safe_division(xs[i], ys[i])]

\* a column divided by a scalar, numpy broadcasting the scalar (line 106)
safe_division_by_scalar(xs, y) ==
    [i \in 1..Len(xs) |-> safe_division(xs[i], y)]

\* ------------------------------------------------------- calculate_metrics
\* Series.sum(): the sum of the column's numbers, missing cells skipped
RECURSIVE SumFrom(_, _, _)
SumFrom(df, c, i) ==
    IF i > Len(df) THEN Zero
    ELSE IF IsNumber(df[i][c]) THEN Plus(df[i][c], SumFrom(df, c, i + 1))
    ELSE SumFrom(df, c, i + 1)

ColSum(df, c) == SumFrom(df, c, 1)

Columns(df) == IF Len(df) = 0 THEN {} ELSE DOMAIN df[1]

DerivedColumns == {"CPC", "CTR", "CPA", "CVR", "ROAS", "ARPPU", "share"}

\* lines 97-109 on one row; total_cost is the column sum of line 105 and
\* keep_share says that the table came with a share column (line 104)
MetricsRow(r, total_cost, keep_share) ==
    [c \in DOMAIN r \cup DerivedColumns |->
        IF c = "CPC" THEN safe_division(r.cost, r.clicks)
        ELSE IF c = "CTR" THEN Times100(safe_division(r.clicks, r.impressions))
        ELSE IF c = "CPA" THEN safe_division(r.cost, r.conversions)
        ELSE IF c = "CVR" THEN Times100(safe_division(r.conversions, r.clicks))
        ELSE IF c = "ROAS" THEN Times100(safe_division(r.revenue, r.cost))
        ELSE IF c = "ARPPU" THEN safe_division(r.revenue, r.conversions)
        ELSE IF c = "share" THEN
            (IF keep_share THEN r.share
             ELSE Times100(safe_division(r.cost, total_cost)))
        ELSE IF c = "rank" THEN Round1(r.rank)
        ELSE r[c]]

\* line 100 with the wrong column on its left side: the conversion rate is
\* written over the conversions column
MetricsRowOverwrite(r, total_cost, keep_share) ==
    [c \in DOMAIN r \cup DerivedColumns |->
        IF c = "conversions" THEN Times100(safe_division(r.conversions, r.clicks))
        ELSE MetricsRow(r, total_cost, keep_share)[c]]

\* line 98 and line 101 without the scaling to a percentage
MetricsRowUnscaled(r, total_cost, keep_share) ==
    [c \in DOMAIN r \cup DerivedColumns |->
        IF c = "CTR" THEN safe_division(r.clicks, r.impressions)
        ELSE IF c = "ROAS" THEN safe_division(r.revenue, r.cost)
        ELSE MetricsRow(r, total_cost, keep_share)[c]]

\* line 106 without the scaling to a percentage
MetricsRowFraction(r, total_cost, keep_share) ==
    [c \in DOMAIN r \cup DerivedColumns |->
        IF c = "share" /\ ~keep_share THEN safe_division(r.cost, total_cost)
        ELSE MetricsRow(r, total_cost, keep_share)[c]]

calculate_metrics_fraction(df) ==
    [i \in 1..Len(df) |->
        MetricsRowFraction(df[i], ColSum(df, "cost"), "share" \in Columns(df))]

calculate_metrics_overwrite(df) ==
    [i \in 1..Len(df) |->
        MetricsRowOverwrite(df[i], ColSum(df, "cost"), "share" \in Columns(df))]

calculate_metrics_unscaled(df) ==
    [i \in 1..Len(df) |->
        MetricsRowUnscaled(df[i], ColSum(df, "cost"), "share" \in Columns(df))]

\* calculate_metrics(df): a copy of df with the derived columns added
calculate_metrics(df) ==
    [i \in 1..Len(df) |->
        MetricsRow(df[i], ColSum(df, "cost"), "share" \in Columns(df))]

\* ----------------------------------------------------------------- cells
\* a missing cell of a text column, of a date column (NaT), of the week and
\* month columns (<NA>), and of the week-label column
NA == "<NA>"
NaT == <<0, 0, 0>>
NoWeek == 0
NoMonth == 0
NoLabel == <<0, <<0, 0, 0>>, <<0, 0, 0>>>>

\* the sentinel the product-type column is expanded with ('전체')
ALL == "ALL"

\* Timestamp comparison a <= b on dates <<year, month, day>>; NaT compares False
DateLE(a, b) ==
    /\ a # NaT
    /\ b # NaT
    /\ \/ a[1] < b[1]
       \/ a[1] = b[1] /\ a[2] < b[2]
       \/ a[1] = b[1] /\ a[2] = b[2] /\ a[3] <= b[3]

DateLess(a, b) == DateLE(a, b) /\ a # b

IsLeap(y) == (y % 4 = 0 /\ y % 100 # 0) \/ y % 400 = 0

DaysBefore(m) ==
    <<0, 31, 59, 90, 120, 151, 181, 212, 243, 273, 304, 334>>[m]

DayOfYear(d) == DaysBefore(d[2]) + d[3] + (IF d[2] > 2 /\ IsLeap(d[1]) THEN 1 ELSE 0)

\* the proleptic Gregorian ordinal of a date (0001-01-01, a Monday, is 1)
Ordinal(d) ==
    LET y == d[1] - 1
    IN  365 * y + (y \div 4) - (y \div 100) + (y \div 400) + DayOfYear(d)

\* Monday = 1 .. Sunday = 7
IsoWeekday(d) == ((Ordinal(d) - 1) % 7) + 1

\* the number of ISO weeks of year y
IsoWeeksIn(y) ==
    LET jan1 == IsoWeekday(<<y, 1, 1>>)
    IN  IF jan1 = 4 \/ (jan1 = 3 /\ IsLeap(y)) THEN 53 ELSE 52

\* .dt.isocalendar().week: the ISO week number alone, without its year
IsoWeek(d) ==
    IF d = NaT THEN NoWeek
    ELSE LET w == (DayOfYear(d) - IsoWeekday(d) + 10) \div 7
         IN  IF w < 1 THEN IsoWeeksIn(d[1] - 1)
             ELSE IF w > IsoWeeksIn(d[1]) THEN 1
             ELSE w

\* .dt.month: the month number alone, without its year
MonthOf(d) == IF d = NaT THEN NoMonth ELSE d[2]

\* --------------------------------------------------------------- text cells
\* the text of a cell is the sequence of its characters
Digits == <<"0", "1", "2", "3", "4", "5", "6", "7", "8", "9">>

IsDigit(ch) == \E n \in 1..10 : Digits[n] = ch

DigitOf(ch) == (CHOOSE n \in 1..10 : Digits[n] = ch) - 1

RECURSIVE Pow10(_)
Pow10(k) == IF k = 0 THEN 1 ELSE 10 * Pow10(k - 1)

\* str(n) of a natural number
RECURSIVE Txt(_)
Txt(n) == IF n < 10 THEN <<Digits[n + 1]>> ELSE Txt(n \div 10) \o <<Digits[(n % 10) + 1]>>

\* the decimals of rem/den, for a fraction that terminates
RECURSIVE Decimals(_, _)
Decimals(rem, den) ==
    IF rem = 0 THEN <<>>
    ELSE <<Digits[((rem * 10) \div den) + 1]>> \o Decimals((rem * 10) % den, den)

NanText == <<"n", "a", "n">>

\* .astype(str) on a cell that read_excel loaded as a number (line 210)
astype_str(v) ==
    IF v[2] = 0 THEN NanText
    ELSE LET a == Abs(v[1])
             sign == IF v[1] < 0 THEN <<"-">> ELSE <<>>
         IN  IF v[2] = 1 THEN sign \o Txt(a)
             ELSE sign \o Txt(a \div v[2]) \o <<".">> \o Decimals(a % v[2], v[2])

\* .str.replace(',', ''): every comma is removed
str_replace_comma(s) == SelectSeq(s, LAMBDA ch : ch # ",")

\* Series.replace('[-+]', ''): a cell whose whole text is '[-+]' becomes '';
\* every other cell is left as it is
replace_sign(s) == IF s = <<"[", "-", "+", "]">> THEN <<>> ELSE s

\* the value of a sequence of digits
RECURSIVE DigitsValue(_)
DigitsValue(s) ==
    IF Len(s) = 0 THEN 0
    ELSE 10 * DigitsValue(SubSeq(s, 1, Len(s) - 1)) + DigitOf(s[Len(s)])

\* the text is digits with at most one decimal point
IsDecimal(s) ==
    /\ \E i \in 1..Len(s) : IsDigit(s[i])
    /\ \A i \in 1..Len(s) : IsDigit(s[i]) \/ s[i] = "."
    /\ Cardinality({i \in 1..Len(s) : s[i] = "."}) <= 1

DecimalValue(s) ==
    LET dots == {i \in 1..Len(s) : s[i] = "."}
        frac == IF dots = {} THEN 0 ELSE Len(s) - (CHOOSE i \in dots : TRUE)
    IN  Norm(DigitsValue(SelectSeq(s, IsDigit)), Pow10(frac))

\* to_numeric with errors='coerce' where a cell that is not a number is made 0
to_numeric_zero(s) ==
    LET body == IF Len(s) > 0 /\ s[1] \in {"-", "+"} THEN Tail(s) ELSE s
        v == DecimalValue(body)
    IN  IF ~IsDecimal(body) THEN Zero
        ELSE IF Len(s) > 0 /\ s[1] = "-" THEN <<-v[1], v[2]>> ELSE v

\* pd.to_numeric(cell, errors='coerce'): a signed decimal is its value, every
\* other text is NaN
to_numeric_coerce(s) ==
    LET body == IF Len(s) > 0 /\ s[1] \in {"-", "+"} THEN Tail(s) ELSE s
        v == DecimalValue(body)
    IN  IF ~IsDecimal(body) THEN NaN
        ELSE IF Len(s) > 0 /\ s[1] = "-" THEN <<-v[1], v[2]>> ELSE v

\* numeric_columns of line 208
numeric_columns == {"impressions", "clicks", "cost", "conversions", "revenue", "rank"}

\* line 210 on one cell
CoerceCell(s) == to_numeric_coerce(replace_sign(str_replace_comma(s)))

\* ------------------------------------------------------------ preprocess_data
RowIndices(df) == 1..Len(df)

\* min and max of the dates of the rows of week w (line 198)
WeekDates(df, w) == {df[i].day : i \in {j \in RowIndices(df) : IsoWeek(df[j].day) = w}}

MinDate(S) == CHOOSE d \in S : \A e \in S : DateLE(d, e)

MaxDate(S) == CHOOSE d \in S : \A e \in S : DateLE(e, d)

\* the label "<week>주차 (<min>~<max>)" of line 199, as its three parts; a row
\* without a week gets no label from the left merge of line 200
WeekLabel(df, d) ==
    IF IsoWeek(d) = NoWeek THEN NoLabel
    ELSE <<IsoWeek(d), MinDate(WeekDates(df, IsoWeek(d))), MaxDate(WeekDates(df, IsoWeek(d)))>>

\* promo_start_date of line 213
promo_start_date == <<2023, 10, 17>>

\* the header of a column: its name and the blanks the sheet has around it
Header(name, pad) == [name |-> name, pad |-> pad]

\* required_columns_raw (lines 178-182), in the order of the list
required_columns_raw ==
    <<"day", "campaign_type", "campaign", "adgroup", "keyword", "media",
      "impressions", "clicks", "cost", "conversions", "rank", "revenue",
      "campaign_category", "campaign_country">>

\* line 87 stopping at the first column it finds missing
missing_cols_first(cols, required_columns) ==
    LET all == SelectSeq(required_columns, LAMBDA col : Header(col, 0) \notin cols)
    IN  IF Len(all) = 0 THEN <<>> ELSE <<all[1]>>

\* [col for col in required_columns if col not in df.columns] (line 87)
missing_cols(cols, required_columns) ==
    SelectSeq(required_columns, LAMBDA col : Header(col, 0) \notin cols)

\* the message of the ValueError of line 89: the joined names
ValueError(names) == [type |-> "ValueError", names |-> names]

\* the error pd.to_datetime raises for a cell it cannot parse (line 191)
DateParseError == [type |-> "DateParseError", names |-> <<>>]

NoError == [type |-> "none", names |-> <<>>]

\* raw_df.columns.str.strip() (line 188)
strip_columns(cols) == {Header(h.name, 0) : h \in cols}

DaysIn(y, m) ==
    IF m = 2 THEN (IF IsLeap(y) THEN 29 ELSE 28)
    ELSE IF m \in {4, 6, 9, 11} THEN 30 ELSE 31

\* a date cell <<y, m, d>> holds a calendar date, is empty (NaT), or holds a
\* text "y-m-d" that names no calendar date
IsDate(d) == d[2] \in 1..12 /\ d[3] \in 1..DaysIn(d[1], d[2])

\* pd.to_datetime(raw_df['일별']) raises when a cell cannot be parsed (line 191)
DateRaises(df) == \E i \in RowIndices(df) : df[i].day # NaT /\ ~IsDate(df[i].day)

\* one row of the normalized set: lines 194-214
PreprocessRow(df, r) ==
    [c \in DOMAIN r \cup {"week", "month", "week_label", "category", "region",
                          "product_type", "promo"} |->
        IF c = "week" THEN IsoWeek(r.day)
        ELSE IF c = "month" THEN MonthOf(r.day)
        ELSE IF c = "week_label" THEN WeekLabel(df, r.day)
        ELSE IF c = "category" THEN r.campaign_category
        ELSE IF c = "region" THEN r.campaign_country
        ELSE IF c = "product_type" THEN r.campaign_category
        ELSE IF c = "promo" THEN (IF DateLE(promo_start_date, r.day) THEN "Y" ELSE "N")
        ELSE IF c \in numeric_columns THEN CoerceCell(r[c])
        ELSE r[c]]

\* lines 188-216 on a sheet that passed line 185 and whose dates parse
preprocess_data(df) == [i \in RowIndices(df) |-> PreprocessRow(df, df[i])]

\* ------------------------------------------------------------------ filters
Dimensions ==
    {"category", "region", "campaign_type", "product_type", "campaign", "adgroup", "media"}

\* raw_df[col].dropna().astype(str).unique() (lines 254-258)
UniqueValues(df, col) == {df[i][col] : i \in RowIndices(df)} \ {NA}

\* handle_select_all(option_list, selected_options)
handle_select_all(option_list, selected_options) ==
    IF ALL \in selected_options \/ Cardinality(selected_options) = 0
    THEN option_list
    ELSE selected_options

\* the resolved selections of lines 289-292
BaseOptions(df, sel) ==
    [d \in {"category", "region", "campaign_type", "product_type", "media"} |->
        handle_select_all(UniqueValues(df, d), sel[d])]

\* unique_campaigns (lines 295-301): .unique() keeps a missing campaign
UniqueCampaigns(df, sel) ==
    LET o == BaseOptions(df, sel)
    IN  {df[i].campaign : i \in {j \in RowIndices(df) :
            /\ df[j].category \in o.category
            /\ df[j].region \in o.region
            /\ df[j].campaign_type \in o.campaign_type
            /\ df[j].product_type \in o.product_type}}

CampaignOptions(df, sel) == handle_select_all(UniqueCampaigns(df, sel), sel.campaign)

\* unique_adgroups (lines 313-320)
UniqueAdgroups(df, sel) ==
    LET o == BaseOptions(df, sel)
    IN  {df[i].adgroup : i \in {j \in RowIndices(df) :
            /\ df[j].category \in o.category
            /\ df[j].region \in o.region
            /\ df[j].campaign_type \in o.campaign_type
            /\ df[j].product_type \in o.product_type
            /\ df[j].campaign \in CampaignOptions(df, sel)}}

\* the seven option lists filter_data is called with (line 358)
Options(df, sel) ==
    [d \in Dimensions |->
        IF d = "campaign" THEN CampaignOptions(df, sel)
        ELSE IF d = "adgroup" THEN handle_select_all(UniqueAdgroups(df, sel), sel.adgroup)
        ELSE BaseOptions(df, sel)[d]]

\* the mask with line 346 written with < : the end date is excluded
MaskExclusive(r, start, end, opts) ==
    /\ DateLE(start, r.day)
    /\ DateLess(r.day, end)
    /\ \A d \in Dimensions : r[d] \in opts[d]

\* the mask of lines 345-353 on one row
Mask(r, start, end, opts) ==
    /\ DateLE(start, r.day)
    /\ DateLE(r.day, end)
    /\ \A d \in Dimensions : r[d] \in opts[d]

RECURSIVE Select(_, _, _, _, _)
Select(df, i, start, end, opts) ==
    IF i > Len(df) THEN <<>>
    ELSE IF Mask(df[i], start, end, opts)
         THEN <<df[i]>> \o Select(df, i + 1, start, end, opts)
         ELSE Select(df, i + 1, start, end, opts)

\* filter_data(raw_df, start_date, end_date, <the seven option lists>)
filter_data(df, start, end, opts) == Select(df, 1, start, end, opts)

\* ------------------------------------------------------------------ groupby
\* is cell v of column c missing
Missing(c, v) ==
    IF c = "day" THEN v = NaT
    ELSE IF c = "week" THEN v = NoWeek
    ELSE IF c = "month" THEN v = NoMonth
    ELSE IF c = "week_label" THEN v = NoLabel
    ELSE v = NA

\* the text values of the model in Python's string order; the sentinel '전체'
\* sorts after every ASCII value
StringOrder ==
    <<"A", "B", "JP", "KR", "MO", "N", "PC", "Y", "c1", "c2", "c3",
      "g1", "g2", "k1", "k2", "search", "shopping", ALL>>

StringRank(v) == CHOOSE i \in 1..Len(StringOrder) : StringOrder[i] = v

\* string order of two week labels "<w>주차 (<min>~<max>)": the week numbers
\* compare as digit strings, a label whose number is a prefix of the other's
\* coming after it ('주' sorts after every digit)
LabelLess(a, b) ==
    IF a[1] = b[1] THEN DateLess(a[2], b[2]) \/ (a[2] = b[2] /\ DateLess(a[3], b[3]))
    ELSE IF (a[1] < 10) = (b[1] < 10) THEN a[1] < b[1]
    ELSE IF a[1] < 10 THEN a[1] < b[1] \div 10
    ELSE a[1] \div 10 <= b[1]

\* x < y on two cells of column c, neither missing
CellLess(c, x, y) ==
    IF c = "day" THEN DateLess(x, y)
    ELSE IF c \in {"week", "month"} THEN x < y
    ELSE IF c = "week_label" THEN LabelLess(x, y)
    ELSE StringRank(x) < StringRank(y)

KeyOf(r, keys) == [i \in 1..Len(keys) |-> r[keys[i]]]

KeyMissing(keys, k) == \E i \in 1..Len(keys) : Missing(keys[i], k[i])

KeyLess(keys, a, b) ==
    \E i \in 1..Len(keys) :
        /\ \A j \in 1..(i - 1) : a[j] = b[j]
        /\ CellLess(keys[i], a[i], b[i])

\* the group keys of df: rows with a missing key belong to no group (dropna)
GroupKeys(df, keys) ==
    {k \in {KeyOf(df[i], keys) : i \in RowIndices(df)} : ~KeyMissing(keys, k)}

\* the groups by descending key
RECURSIVE SortKeysDesc(_, _)
SortKeysDesc(keys, S) ==
    IF S = {} THEN <<>>
    ELSE LET m == CHOOSE a \in S : \A b \in S \ {a} : KeyLess(keys, b, a)
         IN  <<m>> \o SortKeysDesc(keys, S \ {m})

\* groupby sorts the groups by key
RECURSIVE SortKeys(_, _)
SortKeys(keys, S) ==
    IF S = {} THEN <<>>
    ELSE LET m == CHOOSE a \in S : \A b \in S \ {a} : KeyLess(keys, a, b)
         IN  <<m>> \o SortKeys(keys, S \ {m})

RECURSIVE Members(_, _, _, _)
Members(df, keys, k, i) ==
    IF i > Len(df) THEN <<>>
    ELSE IF KeyOf(df[i], keys) = k THEN <<df[i]>> \o Members(df, keys, k, i + 1)
    ELSE Members(df, keys, k, i + 1)

\* 'mean': the mean of the column's numbers; NaN when it has none
ColMean(df, c) ==
    LET n == Cardinality({i \in RowIndices(df) : IsNumber(df[i][c])})
        t == ColSum(df, c)
    IN  IF n = 0 THEN NaN ELSE Norm(t[1], t[2] * n)

\* 'count' in place of 'nunique': the number of non-missing cells
ColCount(df, c) == Num(Cardinality({i \in RowIndices(df) : df[i][c] # NA}))

\* 'nunique': the number of distinct non-missing values
ColNunique(df, c) == Num(Cardinality({df[i][c] : i \in RowIndices(df)} \ {NA}))

RangeOf(seq) == {seq[i] : i \in 1..Len(seq)}

\* agg_dict (lines 376-384) applied to the rows of one group
AggColumns == {"cost", "impressions", "clicks", "conversions", "revenue", "rank", "keyword"}

Aggregate(rows, keys) ==
    [c \in RangeOf(keys) \cup AggColumns |->
        IF c \in RangeOf(keys) THEN rows[1][c]
        ELSE IF c = "rank" THEN ColMean(rows, c)
        ELSE IF c = "keyword" THEN ColNunique(rows, c)
        ELSE ColSum(rows, c)]

\* df.groupby(keys).agg(agg_dict).reset_index()
groupby_agg(df, keys) ==
    LET ks == SortKeys(keys, GroupKeys(df, keys))
    IN  [i \in 1..Len(ks) |-> Aggregate(Members(df, keys, ks[i], 1), keys)]

\* df.drop_duplicates(): a row equal to an earlier row is removed
RECURSIVE DropFrom(_, _)
DropFrom(df, i) ==
    IF i > Len(df) THEN <<>>
    ELSE IF \E j \in 1..(i - 1) : df[j] = df[i] THEN DropFrom(df, i + 1)
    ELSE <<df[i]>> \o DropFrom(df, i + 1)

drop_duplicates(df) == DropFrom(df, 1)

NumLess(x, y) == x[1] * y[2] < y[1] * x[2]

Without(df, i) == [j \in 1..(Len(df) - 1) |-> IF j < i THEN df[j] ELSE df[j + 1]]

\* the rows of df whose value in column c no row exceeds
Largest(df, c) == {i \in RowIndices(df) : \A j \in RowIndices(df) : ~NumLess(df[i][c], df[j][c])}

\* df.sort_values(c, ascending=False) on a column of numbers, sorted with the
\* default kind 'quicksort', which is not stable: the largest first, rows
\* of equal value in any order. The set of the tables it can return.
RECURSIVE sort_values_desc(_, _)
sort_values_desc(df, c) ==
    IF Len(df) = 0 THEN {<<>>}
    ELSE UNION {{<<df[i]>> \o rest : rest \in sort_values_desc(Without(df, i), c)} :
                    i \in Largest(df, c)}

\* df.sort_values(keys) on several columns: ascending by key, rows of equal
\* key in their input order
RECURSIVE sort_values(_, _)
sort_values(df, keys) ==
    IF Len(df) = 0 THEN <<>>
    ELSE LET i == CHOOSE i \in RowIndices(df) :
                    /\ \A j \in RowIndices(df) :
                            ~KeyLess(keys, KeyOf(df[j], keys), KeyOf(df[i], keys))
                    /\ \A j \in 1..(i - 1) :
                            KeyLess(keys, KeyOf(df[i], keys), KeyOf(df[j], keys))
         IN  <<df[i]>> \o sort_values(Without(df, i), keys)

\* df.head(n)
head(df, n) == SubSeq(df, 1, IF Len(df) < n THEN Len(df) ELSE n)

\* the number of rows the top directives keep (lines 609, 770)
TopN == 10

\* Series.round(k): nearest multiple of 10^-k, ties to even; NaN and the
\* infinities stay
RoundTo(v, k) ==
    IF v[2] = 0 THEN v
    ELSE LET p == Pow10(k)
             q == (p * v[1]) \div v[2]
             r == (p * v[1]) % v[2]
             t == IF 2 * r < v[2] THEN q
                  ELSE IF 2 * r > v[2] THEN q + 1
                  ELSE IF q % 2 = 0 THEN q ELSE q + 1
         IN  Norm(t, p)

\* .fillna(0)
fillna0(v) == IF IsNaN(v) THEN Zero ELSE v

\* the first day of the epoch
EpochDate == <<1970, 1, 1>>

\* pd.to_datetime(column '기간', errors='coerce') (line 1059) on one cell: a
\* date stays, a week label is no date and becomes NaT, a month number is
\* taken as that many nanoseconds after the epoch
to_datetime_coerce(opt, v) ==
    IF opt = "daily" THEN v
    ELSE IF opt = "weekly" THEN NaT
    ELSE EpochDate

\* lines 1049-1059 on one row of the period sheet
SaveRow(r, opt) ==
    [c \in DOMAIN r |->
        IF c \in {"cost", "revenue", "CPC", "CPA", "ARPPU"} THEN RoundTo(fillna0(r[c]), 0)
        ELSE IF c \in {"impressions", "clicks", "conversions", "keyword"}
            THEN RoundTo(fillna0(r[c]), 0)
        ELSE IF c \in {"ROAS", "CTR", "CVR", "share"}
            THEN Div(RoundTo(fillna0(r[c]), 2), Num(100))
        ELSE IF c = "rank" THEN RoundTo(fillna0(r[c]), 1)
        ELSE IF c = "period" THEN to_datetime_coerce(opt, r[c])
        ELSE r[c]]

\* save_df_to_excel(raw_group_df, '기간별_성과', ...): the rows written
save_df_to_excel(df, opt) == [i \in RowIndices(df) |-> SaveRow(df[i], opt)]

\* pd.to_numeric(column '키워드', errors='coerce') (line 1054) on a keyword of
\* the detail rows: the keywords are texts that are no numerals
keyword_to_numeric(kw) == NaN

\* save_df_to_excel(filtered_df, '일자별_상세데이터', ...): the rows written;
\* the rows have no '기간' column and their '일별' cells are dates already
save_detail_to_excel(df) ==
    [i \in RowIndices(df) |->
        SaveRow([df[i] EXCEPT !.keyword = keyword_to_numeric(df[i].keyword)], "daily")]

\* the columns of raw_group_df in their order: the group keys (line 1026),
\* the keys of agg_dict (lines 376-382), the columns calculate_metrics
\* assigns (lines 97-106)
period_columns ==
    <<"period", "product_type", "cost", "impressions", "clicks", "conversions",
      "revenue", "rank", "keyword", "CPC", "CTR", "CPA", "CVR", "ROAS", "ARPPU",
      "share">>

\* the letters of the columns of a worksheet
Letters ==
    <<"A", "B", "C", "D", "E", "F", "G", "H", "I", "J", "K", "L", "M", "N", "O", "P">>

ColumnOf(letter) == CHOOSE n \in 1..Len(Letters) : Letters[n] = letter

\* to_excel(..., startrow=1) (line 1061): the title is on row 1, the header
\* on row 2, and data row i on row i + 2
HeaderRows == 2

\* the first row of the cell ranges of the series (lines 1127-1146)
FirstRow == 3

\* the cells  $<letter>$<first>:$<letter>$<last>  of a sheet written with
\* the columns cols
CellRange(rows, cols, letter, first, last) ==
    [k \in 1..(last - first + 1) |-> rows[first + k - 1 - HeaderRows][cols[ColumnOf(letter)]]]

\* the column letter of the 'values' of each series of chart1 and chart2
\* (lines 1128, 1134, 1147) and of their 'categories'
series_values == [cost |-> "C", revenue |-> "G", ROAS |-> "M"]
series_categories == "A"

NoChart == <<>>

\* lines 1122-1155: the values each series of the chart sheet refers to
add_charts(rows) ==
    [name \in DOMAIN series_values \cup {"categories"} |->
        CellRange(rows, period_columns,
                  IF name = "categories" THEN series_categories ELSE series_values[name],
                  FirstRow, Len(rows) + HeaderRows)]

\* lines 368-373 without line 370: the copy keeps its product type
expand_without_overwrite(df) == df \o df

\* lines 368-373: the rows, then a copy of every row with the product type
\* overwritten by the sentinel
expand_with_total(df) ==
    df \o [i \in RowIndices(df) |-> [df[i] EXCEPT !.product_type = ALL]]

\* df[cols]: the named columns only (line 669)
Project(df, cols) == [i \in RowIndices(df) |-> [c \in cols |-> df[i][c]]]

\* ------------------------------------------- safe_division, call by call
\* operand values: zero, numbers whose quotients are whole and fractional,
\* and a missing cell
Numerators == {Zero, Num(7), Num(100), NaN}

Denominators == {Zero, Num(3), Num(10), NaN}

ColumnsOver(S, n) == UNION {[1..k -> S] : k \in 1..n}

\* no script run
NoRun ==
    /\ pc = "idle" /\ sheet = <<>> /\ columns = {} /\ error = NoError
    /\ raw_df = <<>> /\ date_option = "daily"
    /\ start_date = NaT /\ end_date = NaT /\ selected = <<>> /\ filtered_df = <<>>
    /\ group_df = <<>> /\ daily_by_product = <<>> /\ weekly_by_product = <<>>
    /\ region_metrics = <<>> /\ media_metrics = <<>> /\ campaign_metrics = <<>>
    /\ period_sheet = <<>> /\ chart_sheet = <<>> /\ detail_sheet = <<>>

InitDiv ==
    /\ NoRun
    /\ mt_pc = "idle" /\ mt_df = <<>> /\ mt_once = <<>> /\ mt_twice = <<>>
    /\ tp_pc = "idle" /\ tp_groups = <<>> /\ tp_sorted = <<>> /\ tp_top = <<>>
    /\ sd_pc = "call"
    /\ \E k \in 1..MaxLen :
        /\ sd_x \in [1..k -> Numerators]
        /\ sd_y \in [1..k -> Denominators]
    /\ sd_out = <<>>

\* two columns, element by element (lines 97-102)
DivideColumns ==
    /\ sd_pc = "call"
    /\ sd_out' = safe_division_columns(sd_x, sd_y)
    /\ sd_pc' = "columns"
    /\ UNCHANGED <<sd_x, sd_y, metVars, topVars, runVars>>

\* a column by a scalar (line 106); the scalar is the first denominator
DivideByScalar ==
    /\ sd_pc = "call"
    /\ sd_out' = safe_division_by_scalar(sd_x, sd_y[1])
    /\ sd_pc' = "by_scalar"
    /\ UNCHANGED <<sd_x, sd_y, metVars, topVars, runVars>>

\* two scalars (lines 408, 412); the scalars are the first elements
DivideScalars ==
    /\ sd_pc = "call"
    /\ sd_out' = <<safe_division(sd_x[1], sd_y[1])>>
    /\ sd_pc' = "scalars"
    /\ UNCHANGED <<sd_x, sd_y, metVars, topVars, runVars>>

NextDiv == DivideColumns \/ DivideByScalar \/ DivideScalars

\* --------------------------------------- calculate_metrics, table by table
MRow(imp, clk, cst, cnv, rev, rnk) ==
    [impressions |-> imp, clicks |-> clk, cost |-> cst,
     conversions |-> cnv, revenue |-> rev, rank |-> rnk]

MetricRows ==
    { MRow(Num(50), Num(10), Num(100), Num(2), Num(50), <<5, 4>>),
      MRow(Num(50), Zero, Num(200), Zero, Zero, Num(2)),
      MRow(Zero, Zero, Zero, Zero, Zero, NaN),
      MRow(Num(50), Num(5), Num(300), Num(3), Num(900), <<27, 20>>),
      MRow(Num(7), Num(3), Num(100), Num(1), Num(10), <<5, 2>>),
      MRow(Num(50), NaN, Num(100), NaN, Num(50), <<5, 4>>) }

InitMetrics ==
    /\ NoRun
    /\ sd_pc = "idle" /\ sd_x = <<>> /\ sd_y = <<>> /\ sd_out = <<>>
    /\ tp_pc = "idle" /\ tp_groups = <<>> /\ tp_sorted = <<>> /\ tp_top = <<>>
    /\ mt_pc = "table"
    /\ mt_df \in ColumnsOver(MetricRows, MaxTableRows)
    /\ mt_once = <<>>
    /\ mt_twice = <<>>

\* metrics = calculate_metrics(df)
DeriveOnce ==
    /\ mt_pc = "table"
    /\ mt_once' = calculate_metrics(mt_df)
    /\ mt_pc' = "once"
    /\ UNCHANGED <<mt_df, mt_twice, divVars, topVars, runVars>>

\* calculate_metrics applied to its own output
DeriveTwice ==
    /\ mt_pc = "once"
    /\ mt_twice' = calculate_metrics(mt_once)
    /\ mt_pc' = "twice"
    /\ UNCHANGED <<mt_df, mt_once, divVars, topVars, runVars>>

NextMetrics == DeriveOnce \/ DeriveTwice

\* ------------------------------------------ top-10 directives, table by table
\* one group of a grouped table; region is the group's place in the order
\* of the region names, which is the order groupby returns the groups in
GroupRow(i, cst, rev) == [region |-> i, cost |-> cst, revenue |-> rev]

\* cost and revenue of the last groups of a table: equal and unequal values
TiedValues == {<<Num(100), Num(50)>>, <<Num(100), Zero>>, <<Num(200), Zero>>}

\* the tables of n groups: the first groups have values that grow with the
\* region name, the last MaxTied groups take theirs from TiedValues
GroupTables(n) ==
    LET lead == IF n > MaxTied THEN n - MaxTied ELSE 0
    IN  { [i \in 1..n |->
              IF i <= lead THEN GroupRow(i, Num(1000 + i), Num(500 + i))
              ELSE GroupRow(i, t[i - lead][1], t[i - lead][2])] :
          t \in [1..(n - lead) -> TiedValues] }

InitTop ==
    /\ NoRun
    /\ sd_pc = "idle" /\ sd_x = <<>> /\ sd_y = <<>> /\ sd_out = <<>>
    /\ mt_pc = "idle" /\ mt_df = <<>> /\ mt_once = <<>> /\ mt_twice = <<>>
    /\ tp_pc = "groups"
    /\ \E n \in 1..MaxGroups : tp_groups \in GroupTables(n)
    /\ tp_sorted = <<>>
    /\ tp_top = <<>>

\* line 764: region_metrics.sort_values('총비용(VAT포함,원)', ascending=False)
SortRegions ==
    /\ tp_pc = "groups"
    /\ tp_sorted' \in sort_values_desc(tp_groups, "cost")
    /\ tp_pc' = "regions_sorted"
    /\ UNCHANGED <<tp_groups, tp_top, divVars, metVars, runVars>>

\* lines 770-771: the regions of head(10), and the rows of those regions
TopRegions ==
    /\ tp_pc = "regions_sorted"
    /\ LET top_regions == {r.region : r \in RangeOf(head(tp_sorted, TopN))}
       IN  tp_top' = SelectSeq(tp_sorted, LAMBDA r : r.region \in top_regions)
    /\ tp_pc' = "regions_top"
    /\ UNCHANGED <<tp_groups, tp_sorted, divVars, metVars, runVars>>

\* line 608: total_revenue_by_country.sort_values('전환매출액(원)', ascending=False)
SortCountries ==
    /\ tp_pc = "groups"
    /\ tp_sorted' \in sort_values_desc(tp_groups, "revenue")
    /\ tp_pc' = "countries_sorted"
    /\ UNCHANGED <<tp_groups, tp_top, divVars, metVars, runVars>>

\* line 609: top_10_countries
TopCountries ==
    /\ tp_pc = "countries_sorted"
    /\ tp_top' = head(tp_sorted, TopN)
    /\ tp_pc' = "countries_top"
    /\ UNCHANGED <<tp_groups, tp_sorted, divVars, metVars, runVars>>

NextTop == SortRegions \/ TopRegions \/ SortCountries \/ TopCountries

\* ------------------------------------------------------------ the script run
\* a row of the sheet whose numeric cells were loaded as numbers
SRow(day, ctype, camp, adg, kw, med, imp, clk, cst, cnv, rnk, rev, cat, country) ==
    [day |-> day, campaign_type |-> ctype, campaign |-> camp, adgroup |-> adg,
     keyword |-> kw, media |-> med,
     impressions |-> astype_str(imp), clicks |-> astype_str(clk),
     cost |-> astype_str(cst), conversions |-> astype_str(cnv),
     rank |-> astype_str(rnk), revenue |-> astype_str(rev),
     campaign_category |-> cat, campaign_country |-> country]

Day1 == <<2023, 10, 16>>
Day2 == <<2023, 10, 24>>
Day3 == <<2024, 10, 14>>

\* rows of the raw sheet: a row of the same week number a year later, a
\* row without cost, a campaign without category and country, two product
\* types on one day sharing a keyword, a row with empty clicks and
\* conversions cells and no keyword
SheetRows ==
    << SRow(Day3, "shopping", "c2", "g2", "k2", "PC",
            Num(7), Num(3), Num(100), Num(1), <<5, 2>>, Num(10), "B", "JP"),
       SRow(Day2, "shopping", "c1", "g1", "k2", "MO",
            Num(50), Zero, Zero, Zero, NaN, Zero, "A", "KR"),
       SRow(Day2, "search", "c3", "g1", "k2", "PC",
            Num(50), Num(10), Num(200), Num(2), Num(1), Num(100), NA, NA),
       SRow(Day1, "search", "c1", "g1", "k1", "PC",
            Num(50), Num(10), Num(100), Num(2), <<5, 4>>, Num(50), "A", "KR"),
       SRow(Day1, "search", "c2", "g2", "k1", "MO",
            Num(50), Num(5), Num(300), Num(3), Num(2), Num(900), "B", "JP"),
       SRow(Day1, "search", "c1", "g1", NA, "PC",
            Num(50), NaN, Num(100), NaN, <<27, 20>>, Num(50), "A", "KR") >>

\* the sheets of 1 to n rows taken from rows, repeats allowed, in the order
\* rows lists them
Sheets(rows, n) ==
    UNION {{[i \in 1..k |-> rows[f[i]]] :
                f \in {g \in [1..k -> 1..Len(rows)] : \A i \in 1..(k - 1) : g[i] <= g[i + 1]}} :
           k \in 1..n}

\* a row of the sheet whose clicks, cost and revenue cells hold text
TRow(day, clk, cst, rev, cat, country) ==
    [SRow(day, "search", "c1", "g1", "k1", "PC",
          Num(50), Zero, Zero, Num(2), <<5, 4>>, Zero, cat, country)
        EXCEPT !.clicks = clk, !.cost = cst, !.revenue = rev]

\* a date cell holding the text '2023-13-45'
BadDay == <<2023, 13, 45>>

\* rows of the raw sheet with text in numeric cells (thousands separators,
\* a sign, a word), with a date cell that is no date, with an empty date cell
OddRows ==
    << TRow(Day2, <<"a", "b", "c">>, <<"-", "1", ",", "2", "0", "0">>,
            <<"+", "1", ",", "2", "0", "0">>, "B", "JP"),
       TRow(Day1, <<"1", "0">>, <<"1", ",", "2", "0", "0">>,
            <<"2", ",", "4", "0", "0", ".", "5">>, "A", "KR"),
       TRow(BadDay, <<"1", "0">>, <<"1", "0", "0">>, <<"5", "0">>, "A", "KR"),
       TRow(NaT, <<"1", "0">>, <<"1", "0", "0">>, <<"5", "0">>, "A", "KR") >>

AllHeaders == {Header(required_columns_raw[i], 0) : i \in 1..Len(required_columns_raw)}

\* the headers of the sheet: all required columns, one or three of them
\* absent, one of them written with a blank before its name
SheetHeaders ==
    { AllHeaders,
      AllHeaders \ {Header("cost", 0)},
      AllHeaders \ {Header("revenue", 0), Header("day", 0), Header("keyword", 0)},
      (AllHeaders \ {Header("cost", 0)}) \cup {Header("cost", 1)} }

\* the date inputs of lines 245-248 take the first and the last date of the
\* sheet: at least one date cell is not empty
HasDate(df) == \E i \in RowIndices(df) : df[i].day # NaT

Init ==
    /\ sd_pc = "idle" /\ sd_x = <<>> /\ sd_y = <<>> /\ sd_out = <<>>
    /\ mt_pc = "idle" /\ mt_df = <<>> /\ mt_once = <<>> /\ mt_twice = <<>>
    /\ tp_pc = "idle" /\ tp_groups = <<>> /\ tp_sorted = <<>> /\ tp_top = <<>>
    /\ pc = "uploaded"
    /\ sheet \in {df \in Sheets(SheetRows, MaxRows) \cup Sheets(OddRows, MaxOddRows) :
                    HasDate(df)}
    /\ columns \in SheetHeaders
    /\ error = NoError
    /\ raw_df = <<>>
    /\ date_option = "daily"
    /\ start_date = NaT /\ end_date = NaT
    /\ selected = [d \in Dimensions |-> {ALL}]
    /\ filtered_df = <<>>
    /\ group_df = <<>> /\ daily_by_product = <<>> /\ weekly_by_product = <<>>
    /\ region_metrics = <<>> /\ media_metrics = <<>> /\ campaign_metrics = <<>>
    /\ period_sheet = <<>> /\ chart_sheet = <<>> /\ detail_sheet = <<>>

\* raw_df = preprocess_data(raw_df) (line 228); an exception raised inside
\* is caught at line 1180, shown with st.error, and the run stops (line 1183)
Preprocess ==
    /\ pc = "uploaded"
    /\ LET missing == missing_cols(columns, required_columns_raw)
       IN  IF Len(missing) > 0
           THEN /\ error' = ValueError(missing)
                /\ pc' = "halted"
                /\ UNCHANGED <<columns, raw_df>>
           ELSE IF DateRaises(sheet)
           THEN /\ columns' = strip_columns(columns)
                /\ error' = DateParseError
                /\ pc' = "halted"
                /\ UNCHANGED raw_df
           ELSE /\ columns' = strip_columns(columns)
                /\ raw_df' = preprocess_data(sheet)
                /\ pc' = "loaded"
                /\ UNCHANGED error
    /\ UNCHANGED <<otherVars, sheet, date_option, filterVars, filtered_df, viewVars>>

AllDays(df) == {df[i].day : i \in RowIndices(df)} \ {NaT}

\* the date inputs: their defaults (lines 245, 248) or the first day alone
DateRanges(df) == {<<MinDate(AllDays(df)), MaxDate(AllDays(df))>>, <<Day1, Day1>>}

DefaultSelection == [d \in Dimensions |-> {ALL}]

\* the values a multiselect offers besides the sentinel (lines 261-336)
Offered(df, d) ==
    IF d = "campaign" THEN UniqueCampaigns(df, DefaultSelection)
    ELSE IF d = "adgroup" THEN UniqueAdgroups(df, DefaultSelection)
    ELSE UniqueValues(df, d)

\* what the user leaves in one multiselect: the sentinel, nothing, one value
Selections(df, d) == {{ALL}, {}} \cup {{v} : v \in Offered(df, d)}

\* line 358 narrowing the normalized set itself instead of a copy of it
FilterInPlace ==
    /\ pc = "loaded"
    /\ \E range \in DateRanges(raw_df), d \in Dimensions :
        \E choice \in Selections(raw_df, d) :
            /\ start_date' = range[1]
            /\ end_date' = range[2]
            /\ selected' = [DefaultSelection EXCEPT ![d] = choice]
            /\ filtered_df' = filter_data(raw_df, range[1], range[2],
                                          Options(raw_df, selected'))
            /\ raw_df' = filtered_df'
    /\ pc' = "filtered"
    /\ UNCHANGED <<otherVars, inputVars, error, date_option, viewVars>>

\* lines 239-359: the widgets are read and filter_data is called; one
\* multiselect is changed from its default
Filter ==
    /\ pc = "loaded"
    /\ \E range \in DateRanges(raw_df), d \in Dimensions :
        \E choice \in Selections(raw_df, d) :
            /\ start_date' = range[1]
            /\ end_date' = range[2]
            /\ selected' = [DefaultSelection EXCEPT ![d] = choice]
            /\ filtered_df' = filter_data(raw_df, range[1], range[2],
                                          Options(raw_df, selected'))
    /\ pc' = "filtered"
    /\ UNCHANGED <<otherVars, inputVars, error, raw_df, date_option, viewVars>>

\* lines 361-363: st.warning and st.stop
StopEmpty ==
    /\ pc = "filtered"
    /\ Len(filtered_df) = 0
    /\ pc' = "stopped"
    /\ UNCHANGED <<otherVars, inputVars, error, raw_df, date_option, filterVars,
                   filtered_df, viewVars>>

\* line 366 reached whatever line 361 found
DeriveRowsUnguarded ==
    /\ pc = "filtered"
    /\ filtered_df' = calculate_metrics(filtered_df)
    /\ pc' = "derived"
    /\ UNCHANGED <<otherVars, inputVars, error, raw_df, date_option, filterVars, viewVars>>

\* line 366: filtered_df = calculate_metrics(filtered_df)
DeriveRows ==
    /\ pc = "filtered"
    /\ Len(filtered_df) # 0
    /\ filtered_df' = calculate_metrics(filtered_df)
    /\ pc' = "derived"
    /\ UNCHANGED <<otherVars, inputVars, error, raw_df, date_option, filterVars, viewVars>>

\* lines 368-373
Expand ==
    /\ pc = "derived"
    /\ filtered_df' = expand_with_total(filtered_df)
    /\ pc' = "expanded"
    /\ UNCHANGED <<otherVars, inputVars, error, raw_df, date_option, filterVars, viewVars>>

PeriodColumn(opt) ==
    IF opt = "daily" THEN "day" ELSE IF opt = "weekly" THEN "week_label" ELSE "month"

\* rename(columns={<period column>: '기간'})
RenamePeriod(df, col) ==
    [i \in RowIndices(df) |->
        [c \in (DOMAIN df[i] \ {col}) \cup {"period"} |->
            IF c = "period" THEN df[i][col] ELSE df[i][c]]]

\* lines 386-400, with the period selected at line 242
GroupPeriod ==
    /\ pc = "expanded"
    /\ \E opt \in {"daily", "weekly", "monthly"} :
        /\ date_option' = opt
        /\ group_df' = drop_duplicates(calculate_metrics(RenamePeriod(
                groupby_agg(filtered_df, <<PeriodColumn(opt), "product_type">>),
                PeriodColumn(opt))))
    /\ pc' = "grouped"
    /\ UNCHANGED <<otherVars, inputVars, error, raw_df, filterVars, filtered_df,
                   daily_by_product, weekly_by_product, region_metrics, media_metrics,
                   campaign_metrics, period_sheet, chart_sheet, detail_sheet>>

\* lines 664-672
Daily ==
    /\ pc = "grouped"
    /\ daily_by_product' = sort_values(Project(
            calculate_metrics(groupby_agg(filtered_df, <<"day", "product_type">>)),
            {"day", "product_type", "cost", "revenue", "ROAS", "ARPPU",
             "conversions", "rank"}), <<"day", "product_type">>)
    /\ pc' = "daily"
    /\ UNCHANGED <<otherVars, inputVars, error, raw_df, date_option, filterVars, filtered_df,
                   group_df, weekly_by_product, region_metrics, media_metrics,
                   campaign_metrics, period_sheet, chart_sheet, detail_sheet>>

\* lines 705-713
Weekly ==
    /\ pc = "daily"
    /\ weekly_by_product' = sort_values(Project(
            calculate_metrics(groupby_agg(filtered_df,
                <<"week", "week_label", "product_type">>)),
            {"week", "week_label", "product_type", "cost", "revenue", "ROAS", "ARPPU",
             "conversions", "rank"}), <<"week", "product_type">>)
    /\ pc' = "weekly"
    /\ UNCHANGED <<otherVars, inputVars, error, raw_df, date_option, filterVars, filtered_df,
                   group_df, daily_by_product, region_metrics, media_metrics,
                   campaign_metrics, period_sheet, chart_sheet, detail_sheet>>

\* lines 762-765
Region ==
    /\ pc = "weekly"
    /\ \E sorted \in sort_values_desc(
            calculate_metrics(groupby_agg(filtered_df, <<"region">>)), "cost") :
        region_metrics' = drop_duplicates(sorted)
    /\ pc' = "region"
    /\ UNCHANGED <<otherVars, inputVars, error, raw_df, date_option, filterVars, filtered_df,
                   group_df, daily_by_product, weekly_by_product, media_metrics,
                   campaign_metrics, period_sheet, chart_sheet, detail_sheet>>

\* lines 800-802
Media ==
    /\ pc = "region"
    /\ media_metrics' = drop_duplicates(
            calculate_metrics(groupby_agg(filtered_df, <<"media">>)))
    /\ pc' = "media"
    /\ UNCHANGED <<otherVars, inputVars, error, raw_df, date_option, filterVars, filtered_df,
                   group_df, daily_by_product, weekly_by_product, region_metrics,
                   campaign_metrics, period_sheet, chart_sheet, detail_sheet>>

\* lines 847-850
Campaign ==
    /\ pc = "media"
    /\ \E sorted \in sort_values_desc(
            calculate_metrics(groupby_agg(filtered_df,
                <<"campaign", "category", "product_type">>)), "cost") :
        campaign_metrics' = drop_duplicates(sorted)
    /\ pc' = "campaign"
    /\ UNCHANGED <<otherVars, inputVars, error, raw_df, date_option, filterVars, filtered_df,
                   group_df, daily_by_product, weekly_by_product, region_metrics,
                   media_metrics, period_sheet, chart_sheet, detail_sheet>>

\* lines 1015-1028 and 1098: the sheet '기간별_성과' of the report
Export ==
    /\ pc = "campaign"
    /\ period_sheet' = save_df_to_excel(drop_duplicates(calculate_metrics(RenamePeriod(
            groupby_agg(filtered_df, <<PeriodColumn(date_option), "product_type">>),
            PeriodColumn(date_option)))), date_option)
    /\ detail_sheet' = save_detail_to_excel(filtered_df)
    /\ \E include_charts \in BOOLEAN :
        chart_sheet' = IF include_charts THEN add_charts(period_sheet') ELSE NoChart
    /\ pc' = "exported"
    /\ UNCHANGED <<otherVars, inputVars, error, raw_df, date_option, filterVars, filtered_df,
                   group_df, daily_by_product, weekly_by_product, region_metrics,
                   media_metrics, campaign_metrics>>

Next ==
    \/ Preprocess
    \/ Filter
    \/ StopEmpty
    \/ DeriveRows
    \/ Expand
    \/ GroupPeriod
    \/ Daily
    \/ Weekly
    \/ Region
    \/ Media
    \/ Campaign
    \/ Export

\* ---------------------------------------------------------- specifications
Spec == Init /\ [][Next]_vars

SpecDiv == InitDiv /\ [][NextDiv]_vars

SpecMetrics == InitMetrics /\ [][NextMetrics]_vars

SpecTop == InitTop /\ [][NextTop]_vars

\* ------------------------------------------------------------------ claims
\* q is the exact quotient x / y of two numbers, y not zero
IsQuotient(q, x, y) == IsNumber(q) /\ q[1] * y[1] * x[2] = x[1] * q[2] * y[2]

\* q is what a ratio metric must be for numerator x and denominator y
RatioOf(q, x, y) ==
    /\ y = Zero => q = Zero
    /\ (IsNumber(y) /\ y # Zero /\ IsNumber(x)) => IsQuotient(q, x, y)

\* the denominator element i of the call was divided by
DenominatorAt(i) == IF sd_pc = "columns" THEN sd_y[i] ELSE sd_y[1]

\* C1: safe_division returns 0 for every numerator when the denominator is 0
\* and exactly x / y when the denominator is a non-zero number; every call,
\* on scalars, on two columns and on a column and a scalar, returns a value
\* for each element (no error).
C1_SafeDivision ==
    sd_pc \in {"columns", "by_scalar", "scalars"} =>
        /\ Len(sd_out) = (IF sd_pc = "scalars" THEN 1 ELSE Len(sd_x))
        /\ \A i \in 1..Len(sd_out) : RatioOf(sd_out[i], sd_x[i], DenominatorAt(i))

\* a column call that divided 0 by 0 in one element and 100 by 3 in another
C1_Witness ==
    /\ sd_pc = "columns"
    /\ sd_x = <<Zero, Num(100)>>
    /\ sd_y = <<Zero, Num(3)>>
    /\ sd_out = <<Zero, <<100, 3>>>>

RawColumns == {"impressions", "clicks", "cost", "conversions", "revenue"}

Column(df, c) == [i \in 1..Len(df) |-> df[i][c]]

\* the six ratio metrics of output row m, from the raw sums of input row r
RowMetricsFrom(m, r) ==
    /\ \A c \in RawColumns : m[c] = r[c]
    /\ RatioOf(m.CPC, r.cost, r.clicks)
    /\ RatioOf(m.CTR, Times100(r.clicks), r.impressions)
    /\ RatioOf(m.CPA, r.cost, r.conversions)
    /\ RatioOf(m.CVR, Times100(r.conversions), r.clicks)
    /\ RatioOf(m.ROAS, Times100(r.revenue), r.cost)
    /\ RatioOf(m.ARPPU, r.revenue, r.conversions)

\* C3: every output row of calculate_metrics has CPC = cost/clicks,
\* CTR = clicks/impressions x 100, CPA = cost/conversions,
\* CVR = conversions/clicks x 100, ROAS = revenue/cost x 100 and
\* ARPPU = revenue/conversions of that row's own raw sums, each 0 when its
\* denominator is 0; cost [100,200] with clicks [10,0] gives CPC [10,0] and
\* impressions [0,50] with clicks [0,5] gives CTR [0,10].
C3_RowMetrics ==
    mt_pc \in {"once", "twice"} =>
        /\ Len(mt_once) = Len(mt_df)
        /\ \A i \in 1..Len(mt_df) : RowMetricsFrom(mt_once[i], mt_df[i])
        /\ (Column(mt_df, "cost") = <<Num(100), Num(200)>>
                /\ Column(mt_df, "clicks") = <<Num(10), Zero>>)
            => Column(mt_once, "CPC") = <<Num(10), Zero>>
        /\ (Column(mt_df, "impressions") = <<Zero, Num(50)>>
                /\ Column(mt_df, "clicks") = <<Zero, Num(5)>>)
            => Column(mt_once, "CTR") = <<Zero, Num(10)>>

\* the table of the first example, derived
C3_Witness ==
    /\ mt_pc = "once"
    /\ Column(mt_df, "cost") = <<Num(100), Num(200)>>
    /\ Column(mt_df, "clicks") = <<Num(10), Zero>>
    /\ Column(mt_once, "CPC") = <<Num(10), Zero>>
    /\ Column(mt_once, "ROAS") = <<Num(50), Zero>>

\* C4: calculate_metrics is idempotent: applied to its own output it returns
\* the same raw sums and the same derived values (CPC, CTR, CPA, CVR, ROAS,
\* ARPPU, operating share, rounded rank).
C4_Idempotent ==
    mt_pc = "twice" => mt_twice = mt_once

\* a second derivation of a two-row table whose rank the first one rounded
\* and whose shares are not zero
C4_Witness ==
    /\ mt_pc = "twice"
    /\ Len(mt_df) = 2
    /\ mt_once[1].rank # mt_df[1].rank
    /\ mt_once[1].share # Zero
    /\ mt_twice[1].share = mt_once[1].share

\* the sum of column c over the rows of df whose index is in I, missing
\* cells skipped
RECURSIVE SumCells(_, _, _)
SumCells(df, c, I) ==
    IF I = {} THEN Zero
    ELSE LET i == CHOOSE j \in I : TRUE
         IN  IF IsNumber(df[i][c]) THEN Plus(df[i][c], SumCells(df, c, I \ {i}))
             ELSE SumCells(df, c, I \ {i})

\* the records that pass the filter of the run, before any later step
Original == filter_data(raw_df, start_date, end_date, Options(raw_df, selected))

Where(df, c, v) == {i \in RowIndices(df) : df[i][c] = v}

AfterMedia == {"media", "campaign", "exported"}
AfterRegion == {"region"} \cup AfterMedia
AfterWeekly == {"weekly"} \cup AfterRegion
AfterDaily == {"daily"} \cup AfterWeekly
AfterGroup == {"grouped"} \cup AfterDaily
AfterExpand == {"expanded"} \cup AfterGroup
AfterDerive == {"derived"} \cup AfterExpand

AllDefined(df) ==
    \A i \in RowIndices(df) : \A c \in DerivedColumns \cap DOMAIN df[i] : IsNumber(df[i][c])

\* C2: every derived metric (CPC, CTR, CPA, CVR, ROAS, ARPPU, operating
\* share) of every row computed by calculate_metrics is a defined number,
\* never a missing value, a missing denominator giving 0.
C2_MetricsDefined ==
    /\ pc \in AfterDerive => AllDefined(filtered_df)
    /\ AllDefined(group_df)
    /\ AllDefined(region_metrics)
    /\ AllDefined(media_metrics)
    /\ AllDefined(campaign_metrics)

SharesSumTo100(df) == Len(df) > 0 => ColSum(df, "share") = Num(100)

\* C5 as stated: the operating shares of the groups of the region view and
\* of the media view sum to 100%.
C5_SharesSumTo100 ==
    /\ pc \in AfterRegion => SharesSumTo100(region_metrics)
    /\ pc \in AfterMedia => SharesSumTo100(media_metrics)

SharesOf(df) ==
    IF ColSum(df, "cost") = Zero
    THEN \A i \in RowIndices(df) : df[i].share = Zero
    ELSE SumCells(df, "share", RowIndices(df)) = Num(100)

\* C5 amended: the operating shares of the groups of the region view and of
\* the media view sum to 100% when the total cost of the groups is not
\* zero; when it is zero every share is 0.
C5_SharesSum ==
    /\ pc \in AfterRegion => SharesOf(region_metrics)
    /\ pc \in AfterMedia => SharesOf(media_metrics)

\* two regions and two media with shares 25% and 75%
C5_Witness ==
    /\ pc = "media"
    /\ Len(region_metrics) = 2
    /\ Len(media_metrics) = 2
    /\ region_metrics[1].share = Num(75)
    /\ region_metrics[2].share = Num(25)
    /\ media_metrics[1].share # Zero

\* the sentinel row of group key k of a table grouped on <<key column,
\* product type>> against the table's own per-product-type rows and the
\* original records of the key
SentinelRow(df, kcol, F, fcol, k) ==
    LET S == {i \in Where(df, kcol, k) : df[i].product_type = ALL}
        T == {i \in Where(df, kcol, k) : df[i].product_type # ALL}
    IN  /\ Cardinality(S) = 1
        /\ \A s \in S :
            /\ \A c \in RawColumns : df[s][c] = SumCells(df, c, T)
            /\ df[s].keyword =
                  Num(Cardinality({F[i].keyword : i \in Where(F, fcol, k)} \ {NA}))

\* C6: after the expansion and the grouping on the product type, the
\* sentinel row of each group key has impressions, clicks, cost, conversions
\* and revenue equal to the sums of the per-product-type rows' sums of that
\* key, and its keyword count is the number of distinct keywords over the
\* original records of the key.
C6_SentinelRow ==
    pc \in AfterGroup =>
        LET F == Original
            kcol == PeriodColumn(date_option)
        IN  \A k \in {F[i][kcol] : i \in RowIndices(F)} :
                SentinelRow(group_df, "period", F, kcol, k)

\* a day on which two product types share one keyword: the sentinel row
\* counts it once, the per-product-type rows count it twice
C6_Witness ==
    /\ pc = "grouped"
    /\ Len(group_df) = 3
    /\ group_df[1].keyword = Num(1)
    /\ group_df[2].keyword = Num(1)
    /\ group_df[3].product_type = ALL
    /\ group_df[3].keyword = Num(1)
    /\ group_df[3].cost = Num(400)

\* the rows of daily_by_product for day d
DayRows(d) == Where(daily_by_product, "day", d)

\* the rows of day d against the original records F
DayOf(F, d) ==
    LET types == {F[i].product_type : i \in Where(F, "day", d)}
        rows == DayRows(d)
    IN  /\ Cardinality(rows) = Cardinality(types) + 1
        /\ \A t \in types \cup {ALL} :
            Cardinality({j \in rows : daily_by_product[j].product_type = t}) = 1
        /\ \A j \in rows :
            daily_by_product[j].product_type = ALL =>
                /\ daily_by_product[j].cost = SumCells(F, "cost", Where(F, "day", d))
                /\ daily_by_product[j].revenue = SumCells(F, "revenue", Where(F, "day", d))
                /\ RatioOf(daily_by_product[j].ROAS,
                           Times100(daily_by_product[j].revenue), daily_by_product[j].cost)

\* C7: grouping by day and product type with the virtual total yields, for
\* every day that has filtered records, one row per product type present on
\* that day plus one sentinel row, whose cost and revenue are the day's
\* totals and whose ROAS is 100 x total revenue / total cost (0 when the
\* day has no cost); costs 100 and 300 with revenues 50 and 900 give
\* A: 50%, B: 300%, ALL: cost 400, ROAS 237.5%.
C7_DailyByProduct ==
    pc \in AfterDaily =>
        LET F == Original
            days == {F[i].day : i \in RowIndices(F)}
        IN  /\ \A d \in days : DayOf(F, d)
            /\ \A j \in RowIndices(daily_by_product) : daily_by_product[j].day \in days
            /\ (Column(F, "cost") = <<Num(100), Num(300)>>
                    /\ Column(F, "revenue") = <<Num(50), Num(900)>>
                    /\ Column(F, "day") = <<Day1, Day1>>
                    /\ Column(F, "product_type") = <<"A", "B">>)
                => /\ Column(daily_by_product, "product_type") = <<"A", "B", ALL>>
                   /\ Column(daily_by_product, "cost") = <<Num(100), Num(300), Num(400)>>
                   /\ Column(daily_by_product, "ROAS") = <<Num(50), Num(300), <<475, 2>>>>

\* the example of the claim
C7_Witness ==
    /\ pc = "daily"
    /\ Column(Original, "cost") = <<Num(100), Num(300)>>
    /\ Column(Original, "product_type") = <<"A", "B">>
    /\ Column(daily_by_product, "ROAS") = <<Num(50), Num(300), <<475, 2>>>>

\* the sums of the groups of df, grouped on column c, are the sums over
\* the original records F of the group
SumsCountOnce(df, c, F) ==
    \A g \in RowIndices(df) :
        \A col \in RawColumns :
            df[g][col] = SumCells(F, col, Where(F, c, df[g][c]))

\* C8: in every view, the region view and the media view included, each
\* group's impressions, clicks, cost, conversions and revenue are the sums
\* over the filtered original records of the group, each record counted
\* once.
C8_SumsCountOnce ==
    /\ pc \in AfterRegion => SumsCountOnce(region_metrics, "region", Original)
    /\ pc \in AfterMedia => SumsCountOnce(media_metrics, "media", Original)

DefaultFilters ==
    /\ selected = DefaultSelection
    /\ start_date = MinDate(AllDays(raw_df))
    /\ end_date = MaxDate(AllDays(raw_df))

Unmatched(r) == r.category = NA /\ r.region = NA

\* C9: with every filter at its default, the records of a campaign without
\* category and region pass the filter and the campaign is a row of the
\* campaign view, with null category.
C9_UnmatchedCampaignKept ==
    /\ (pc = "filtered" /\ DefaultFilters) =>
        \A i \in RowIndices(raw_df) :
            Unmatched(raw_df[i]) => raw_df[i] \in RangeOf(filtered_df)
    /\ (pc = "campaign" /\ DefaultFilters) =>
        \A i \in RowIndices(raw_df) :
            Unmatched(raw_df[i]) =>
                \E j \in RowIndices(campaign_metrics) :
                    /\ campaign_metrics[j].campaign = raw_df[i].campaign
                    /\ campaign_metrics[j].category = NA

Unrestricted(d) == ALL \in selected[d] \/ selected[d] = {}

\* C10: a filter whose selection holds the sentinel or is empty places no
\* restriction on its dimension: a record within the date range that
\* satisfies the other filters is retained whatever its value, a missing
\* value included, in that dimension.
C10_SentinelNoRestriction ==
    pc = "filtered" =>
        \A i \in RowIndices(raw_df) :
            ( /\ DateLE(start_date, raw_df[i].day)
              /\ DateLE(raw_df[i].day, end_date)
              /\ \A d \in Dimensions :
                    Unrestricted(d) \/ raw_df[i][d] \in Options(raw_df, selected)[d] )
            => raw_df[i] \in RangeOf(filtered_df)

\* the record is within the date range and within every selection of opts
InFilter(r, opts) ==
    /\ r.day # NaT
    /\ ~DateLess(r.day, start_date)
    /\ ~DateLess(end_date, r.day)
    /\ \A d \in Dimensions : r[d] \in opts[d]

Count(df, r) == Cardinality({i \in RowIndices(df) : df[i] = r})

\* the columns of the normalized set, but the rank that line 109 rounds
RawRow(r) == [c \in DOMAIN raw_df[1] \ {"rank"} |-> r[c]]

\* the values of the key column c of view df are values of the records K
KeysWithin(df, c, K, fc) ==
    \A g \in RowIndices(df) : \E i \in K : raw_df[i][fc] = df[g][c]

\* C11: filter_data keeps a record iff its date is within [start, end], both
\* bounds included, and each of its seven categorical values is in the
\* resolved selection of its dimension; the expansion and every grouping
\* work on the kept records only, so every group's key is the key of a kept
\* record.
C11_FilterBeforeGrouping ==
    pc \in {"filtered"} \cup AfterExpand =>
        LET opts == Options(raw_df, selected)
            K == {i \in RowIndices(raw_df) : InFilter(raw_df[i], opts)}
        IN  /\ pc = "filtered" =>
                /\ Len(filtered_df) <= Len(raw_df)
                /\ \A i \in RowIndices(raw_df) :
                    Count(filtered_df, raw_df[i]) =
                        (IF i \in K THEN Count(raw_df, raw_df[i]) ELSE 0)
            /\ pc \in AfterExpand =>
                \A j \in RowIndices(filtered_df) :
                    \E i \in K :
                        RawRow(filtered_df[j]) \in
                            {RawRow(raw_df[i]), RawRow([raw_df[i] EXCEPT !.product_type = ALL])}
            /\ pc \in AfterGroup =>
                KeysWithin(group_df, "period", K, PeriodColumn(date_option))
            /\ pc \in AfterDaily => KeysWithin(daily_by_product, "day", K, "day")
            /\ pc \in AfterWeekly =>
                KeysWithin(weekly_by_product, "week_label", K, "week_label")
            /\ pc \in AfterRegion => KeysWithin(region_metrics, "region", K, "region")
            /\ pc \in AfterMedia => KeysWithin(media_metrics, "media", K, "media")
            /\ pc \in {"campaign", "exported"} =>
                KeysWithin(campaign_metrics, "campaign", K, "campaign")

\* a date range of one day: the record of that day is kept, the record of
\* another day is dropped
C11_Witness ==
    /\ pc = "filtered"
    /\ start_date = end_date
    /\ Len(raw_df) = 2
    /\ Len(filtered_df) = 1
    /\ filtered_df[1].day = end_date
    /\ \E i \in RowIndices(raw_df) : DateLess(end_date, raw_df[i].day)

NoViews ==
    /\ group_df = <<>> /\ daily_by_product = <<>> /\ weekly_by_product = <<>>
    /\ region_metrics = <<>> /\ media_metrics = <<>> /\ campaign_metrics = <<>>
    /\ period_sheet = <<>> /\ chart_sheet = <<>> /\ detail_sheet = <<>>

\* what holds in every state of a run whose filters match nothing
StoppedWhenEmpty ==
    /\ pc \in AfterDerive => Len(Original) > 0
    /\ pc = "stopped" => Len(filtered_df) = 0 /\ NoViews /\ error = NoError

\* the one step of a run whose filters matched nothing
StepWhenEmpty ==
    /\ (pc = "filtered" /\ Len(filtered_df) = 0) =>
            (pc' = "stopped" /\ filtered_df' = filtered_df /\ viewVars' = viewVars)
    /\ pc # "stopped"

\* C12: when the filters match no record the run warns and stops: the step
\* after the filter leads to the stop, nothing is derived, expanded, grouped
\* or exported in that run, and no step follows the stop.
C12_EmptyStops == []StoppedWhenEmpty /\ [][StepWhenEmpty]_vars

\* a run stopped on a loaded sheet whose records the filters all rejected
C12_Witness ==
    /\ pc = "stopped"
    /\ Len(raw_df) > 0
    /\ Len(filtered_df) = 0
    /\ NoViews

\* the required columns the sheet has no header for, a header with blanks
\* around the name being another name
AbsentColumns ==
    {required_columns_raw[i] : i \in 1..Len(required_columns_raw)}
        \ {h.name : h \in {g \in columns : g.pad = 0}}

\* C13: when a required column is absent from the raw sheet, preprocess_data
\* fails with an error whose message names every absent column and no other,
\* before any normalization step (the headers are as loaded, no row is
\* normalized) and the run halts without filters or aggregates; when none is
\* absent, validation raises nothing.
C13_MissingColumns ==
    pc # "uploaded" =>
        IF AbsentColumns # {}
        THEN /\ pc = "halted"
             /\ error.type = "ValueError"
             /\ RangeOf(error.names) = AbsentColumns
             /\ Len(error.names) = Cardinality(AbsentColumns)
             /\ columns \in SheetHeaders
             /\ raw_df = <<>> /\ filtered_df = <<>> /\ NoViews
             /\ start_date = NaT /\ end_date = NaT
        ELSE error.type # "ValueError"

\* a sheet without three of the required columns, halted
C13_Witness ==
    /\ pc = "halted"
    /\ error = ValueError(<<"day", "keyword", "revenue">>)
    /\ Len(sheet) > 0

\* the sheet passes the validation of line 185 and its dates parse
Loads == AbsentColumns = {} /\ ~DateRaises(sheet)

\* the text of the cell, its commas taken out, is a decimal number with or
\* without a sign
ParsesAsNumber(s) ==
    LET t == SelectSeq(s, LAMBDA ch : ch # ",")
    IN  IsDecimal(IF Len(t) > 0 /\ t[1] \in {"-", "+"} THEN Tail(t) ELSE t)

\* the numeric cells of the sheet that hold no number
BadCells ==
    {<<i, c>> \in RowIndices(sheet) \X numeric_columns : ~ParsesAsNumber(sheet[i][c])}

\* the sheet with its bad cells emptied
WithoutBadCells ==
    [i \in RowIndices(sheet) |->
        [c \in DOMAIN sheet[i] |->
            IF <<i, c>> \in BadCells THEN NanText ELSE sheet[i][c]]]

\* C14: a cell of a numeric column that cannot be parsed as a number becomes
\* missing; normalization raises no error for it, the row is retained, and
\* every other cell of the normalized set is what it is when the bad cell is
\* empty.
C14_BadNumberCoerced ==
    /\ (pc # "uploaded" /\ Loads) => (pc # "halted" /\ error = NoError)
    /\ (pc = "loaded" /\ Loads) =>
        /\ Len(raw_df) = Len(sheet)
        /\ \A cell \in BadCells : IsNaN(raw_df[cell[1]][cell[2]])
        /\ \A i \in RowIndices(sheet) :
            \A c \in DOMAIN raw_df[i] :
                <<i, c>> \notin BadCells =>
                    raw_df[i][c] = preprocess_data(WithoutBadCells)[i][c]

\* a sheet with the word 'abc' in a clicks cell: the cell is missing, the
\* row is there, the cells of the other row are numbers
C14_Witness ==
    /\ pc = "loaded"
    /\ Len(raw_df) = 2
    /\ sheet[1].clicks = <<"a", "b", "c">>
    /\ IsNaN(raw_df[1].clicks)
    /\ raw_df[1].impressions = Num(50)
    /\ raw_df[2].clicks = Num(10)
    /\ raw_df[2].cost = Num(1200)

\* the number a cell's text names once its commas and its sign are taken out
Magnitude(s) ==
    DecimalValue(SelectSeq(s, LAMBDA ch : ch \notin {",", "-", "+"}))

\* C15: numeric coercion strips the thousands separators and a leading sign
\* before parsing: a cell such as '-1,200' or '+1,200' becomes 1200, and no
\* value of a normalized numeric column is negative.
C15_SignStripped ==
    pc = "loaded" =>
        \A i \in RowIndices(sheet) :
            \A c \in numeric_columns :
                /\ ParsesAsNumber(sheet[i][c]) => raw_df[i][c] = Magnitude(sheet[i][c])
                /\ IsNumber(raw_df[i][c]) => raw_df[i][c][1] >= 0

\* the date cells of the sheet that hold a text that is no date
BadDates == {i \in RowIndices(sheet) : sheet[i].day # NaT /\ ~IsDate(sheet[i].day)}

\* C16: a record whose date cell cannot be parsed gets a missing date and no
\* error: normalization completes, the record is in the normalized set, and
\* it never passes the date-range filter.
C16_BadDateMissing ==
    (pc # "uploaded" /\ AbsentColumns = {}) =>
        /\ error = NoError
        /\ pc # "halted"
        /\ Len(raw_df) = Len(sheet)
        /\ \A i \in BadDates : raw_df[i].day = NaT
        /\ pc = "filtered" =>
            \A i \in RowIndices(sheet) :
                raw_df[i].day = NaT => raw_df[i] \notin RangeOf(filtered_df)

\* the number of distinct non-missing values of column c over the rows I of F
Distinct(F, c, I) == Num(Cardinality({F[i][c] : i \in I} \ {NA}))

\* the original records of the group of row g of a view grouped on <<key
\* column, product type>>
GroupRecords(F, fcol, g) ==
    {i \in Where(F, fcol, g.period) : g.product_type \in {ALL, F[i].product_type}}

\* C17: every aggregate group carries, besides its sums and its mean rank,
\* the number of distinct campaigns and the number of distinct keywords of
\* its records.
C17_DistinctCounts ==
    pc \in AfterGroup =>
        LET F == Original
        IN  \A g \in RowIndices(group_df) :
                LET I == GroupRecords(F, PeriodColumn(date_option), group_df[g])
                IN  /\ group_df[g].keyword = Distinct(F, "keyword", I)
                    /\ "campaign" \in DOMAIN group_df[g]
                    /\ group_df[g].campaign = Distinct(F, "campaign", I)

\* row a of a view comes before row b: by the first dimension, of column
\* kind c1, then by the product type; week labels are ordered as the texts
\* they are
Before(a, b, c, c1) ==
    \/ CellLess(c1, a[c], b[c])
    \/ a[c] = b[c] /\ StringRank(a.product_type) < StringRank(b.product_type)

Ascending(df, c, c1) ==
    \A i \in 1..(Len(df) - 1) : Before(df[i], df[i + 1], c, c1)

TopMetric == IF tp_pc = "regions_top" THEN "cost" ELSE "revenue"

\* the groups a top directive kept; a group is named by its place in the input
Kept == {tp_top[i].region : i \in RowIndices(tp_top)}

Dropped == RowIndices(tp_groups) \ Kept

\* C19: the top-10 directive of the region view (by cost) and of the country
\* trend (by revenue) keeps exactly min(10, number of groups) groups, no
\* dropped group has a larger metric value than a kept one, and of groups
\* with equal values the ones earlier in the input are kept.
C19_TopTen ==
    tp_pc \in {"regions_top", "countries_top"} =>
        /\ Len(tp_top) = (IF Len(tp_groups) < TopN THEN Len(tp_groups) ELSE TopN)
        /\ Cardinality(Kept) = Len(tp_top)
        /\ \A k \in Kept : \A d \in Dropped :
            /\ ~NumLess(tp_groups[k][TopMetric], tp_groups[d][TopMetric])
            /\ tp_groups[k][TopMetric] = tp_groups[d][TopMetric] => k < d

\* C20: in the exported period-performance sheet the period cell of each row
\* identifies the row's period: the day for the daily period, the week label
\* for the weekly one, the year and month for the monthly one; no period
\* cell is empty and rows of different periods have different period cells.
C20_PeriodLabels ==
    pc = "exported" =>
        /\ Len(period_sheet) = Len(group_df)
        /\ \A i \in RowIndices(period_sheet) : period_sheet[i].period # NaT
        /\ \A i, j \in RowIndices(period_sheet) :
            group_df[i].period # group_df[j].period =>
                period_sheet[i].period # period_sheet[j].period
        /\ date_option = "daily" =>
            \A i \in RowIndices(period_sheet) : period_sheet[i].period = group_df[i].period
        /\ date_option = "monthly" =>
            \A i \in RowIndices(period_sheet) : period_sheet[i].period[2] = group_df[i].period

\* the Monday of the calendar week of a date, as an ordinal
MondayOf(d) == Ordinal(d) - IsoWeekday(d) + 1

Dated(df) == {i \in RowIndices(df) : df[i].day # NaT}

\* C21: records share a month bucket only if their dates lie in the same
\* month of the same year, and a week bucket and week label only if their
\* dates lie in the same week of the same year; no weekly or monthly group
\* sums records of different years, and the span of a week label is at most
\* one week.
C21_BucketsWithinYear ==
    /\ pc \in {"loaded", "filtered"} \cup AfterDerive =>
        /\ \A i, j \in Dated(raw_df) :
            /\ raw_df[i].month = raw_df[j].month =>
                /\ raw_df[i].day[1] = raw_df[j].day[1]
                /\ raw_df[i].day[2] = raw_df[j].day[2]
            /\ (raw_df[i].week = raw_df[j].week
                    \/ raw_df[i].week_label = raw_df[j].week_label) =>
                MondayOf(raw_df[i].day) = MondayOf(raw_df[j].day)
        /\ \A i \in Dated(raw_df) :
            Ordinal(raw_df[i].week_label[3]) - Ordinal(raw_df[i].week_label[2]) <= 6
    /\ pc \in AfterGroup =>
        \A g \in RowIndices(group_df) : \A i, j \in Dated(filtered_df) :
            /\ filtered_df[i][PeriodColumn(date_option)] = group_df[g].period
            /\ filtered_df[j][PeriodColumn(date_option)] = group_df[g].period
            => filtered_df[i].day[1] = filtered_df[j].day[1]

\* the request is past preprocess_data
Normalized == pc \in {"loaded", "filtered", "stopped"} \cup AfterDerive

\* the normalized set is what preprocess_data made of the sheet: it has no
\* metric column, no sentinel row, and every row of the sheet
StillNormalized == Normalized => raw_df = preprocess_data(sheet)

\* a step of the request leaves the normalized set as it is
StepKeepsNormalized == Normalized => raw_df' = raw_df

\* C22: once preprocess_data has returned, no later step (filter, row
\* metrics, expansion with the sentinel, any grouping, sort, top selection
\* or export) changes a cell, a column or a row of the normalized set.
C22_NormalizedImmutable == []StillNormalized /\ [][StepKeepsNormalized]_vars

\* an exported request whose filter dropped a record and whose working set
\* was given metric columns, a rounded rank and sentinel rows: the
\* normalized set still holds both records, the unrounded rank, no sentinel
C22_Witness ==
    /\ pc = "exported"
    /\ Len(raw_df) = 2
    /\ Len(filtered_df) = 2
    /\ filtered_df[2].product_type = ALL
    /\ "CPC" \in DOMAIN filtered_df[1]
    /\ "CPC" \notin DOMAIN raw_df[1]
    /\ \E i \in RowIndices(raw_df) :
        /\ RawRow(filtered_df[1]) = RawRow(raw_df[i])
        /\ filtered_df[1].rank # raw_df[i].rank
    /\ \A i \in RowIndices(raw_df) : raw_df[i].product_type # ALL

\* the column of the period sheet that holds the named quantity
Holds(name) == [i \in RowIndices(period_sheet) |-> period_sheet[i][name]]

\* C23: in the chart sheet the cost, revenue and ROAS series take their
\* values from the column of the period sheet that holds cost, revenue and
\* ROAS respectively, whatever the period.
C23_ChartColumns ==
    pc = "exported" /\ chart_sheet # NoChart =>
        /\ chart_sheet.cost = Holds("cost")
        /\ chart_sheet.revenue = Holds("revenue")
        /\ chart_sheet.ROAS = Holds("ROAS")

\* the records of the normalized set that passed the filter
Passed ==
    LET opts == Options(raw_df, selected)
    IN  {i \in RowIndices(raw_df) : InFilter(raw_df[i], opts)}

\* the cells of a record that the export writes as they are
Identity(r) ==
    [c \in {"day", "campaign_type", "campaign", "adgroup", "media", "category",
            "region", "product_type"} |-> r[c]]

\* C24: the detail sheet of the report holds every record that passed the
\* filter exactly once, with its own product type; it holds no sentinel
\* row, so it has as many rows as records passed the filter.
C24_DetailRows ==
    pc = "exported" =>
        /\ Len(detail_sheet) = Cardinality(Passed)
        /\ \A j \in RowIndices(detail_sheet) : detail_sheet[j].product_type # ALL
        /\ \A i \in Passed :
            Cardinality({j \in RowIndices(detail_sheet) :
                            Identity(detail_sheet[j]) = Identity(raw_df[i])})
                = Cardinality({k \in Passed : Identity(raw_df[k]) = Identity(raw_df[i])})

\* every required column is in the sheet once the blanks around the headers
\* are trimmed, and at least one header has such blanks
PaddedOnly ==
    /\ Len(missing_cols(strip_columns(columns), required_columns_raw)) = 0
    /\ \E h \in columns : h.pad # 0

\* C25: the headers are trimmed before the required columns are looked up: a
\* sheet that has a required column under a header with blanks around it is
\* accepted and normalized, not rejected as missing the column.
C25_TrimBeforeCheck ==
    pc # "uploaded" /\ PaddedOnly =>
        /\ error.type # "ValueError"
        /\ ~DateRaises(sheet) =>
            /\ pc # "halted"
            /\ raw_df = preprocess_data(sheet)

====
